---- MODULE Spec2Model ----
(***************************************************************************)
(* The two parameter sweeps of the repository:                             *)
(*   "qt"  experiments/quantum_tanner_search.py  (multiprocessing.Pool,    *)
(*         explicit poll loop over active_tasks, one file per sample)      *)
(*   "qc"  experiments/quasi_cyclic/run_search.py (ProcessPoolExecutor,    *)
(*         shared diskcache keyed by the candidate)                        *)
(* The state is the driver's position, the pool's jobs, and the persisted  *)
(* artifacts.  The qldpc library is opaque: what it answers for one        *)
(* candidate is fixed for a behaviour and drawn from a small set.          *)
(***************************************************************************)
EXTENDS Integers, Sequences, FiniteSets, TLC

\* ------------------------------------------------------------------ bounds
MaxJobs == 3        \* the sweep is followed over its first MaxJobs candidates
MaxCpus == 4        \* os.cpu_count() returns None or 1..MaxCpus
qc_max_order == 3   \* run_search.py max_order (14 in the script)
qt_max_order == 3   \* get_small_groups max_order (20 in the script)
num_samples == 2    \* quantum_tanner_search.py num_samples (100 in the script)
HashBits == 12      \* width of the truncated digest (8 * num_bytes in the script)
MaxMappings == 2    \* get_toric_mappings() returns 0..MaxMappings layouts

\* -------------------------------------------------------- program constants
NUM_TRIALS == 1000
MAX_COMMUNICATION_DISTANCE == 12
MIN_ORDER == 3
min_order == 3
num_trials == 1000

UnknownCpus == 0    \* os.cpu_count() returning None (falsy, like 0)

\* ------------------------------------------------------------ pure helpers
RECURSIVE Concat(_)
Concat(ss) == IF ss = <<>> THEN <<>> ELSE Head(ss) \o Concat(Tail(ss))

\* Python range(a, b) as a sequence
Range(a, b) == [i \in 1..(IF b > a THEN b - a ELSE 0) |-> a + i - 1]

Take(s, n) == SubSeq(s, 1, IF Len(s) < n THEN Len(s) ELSE n)

SeqToSet(s) == {s[i] : i \in DOMAIN s}

Max(a, b) == IF a > b THEN a ELSE b

SetMax(S) == CHOOSE m \in S : \A e \in S : e <= m
SetMin(S) == CHOOSE m \in S : \A e \in S : m <= e

RECURSIVE Pow2(_)
Pow2(n) == IF n = 0 THEN 1 ELSE 2 * Pow2(n - 1)

\* ------------------------------------------- quasi-cyclic candidate enumeration
\* (variant: the last range's value is dropped, so tuples repeat)
ExponentProduct_Repeating(dim_x, dim_y) ==
    Concat([a \in 1..dim_x |->
      Concat([b \in 1..dim_y |->
        Concat([c \in 1..dim_x |->
          [d \in 1..dim_y |-> <<a - 1, b - 1, c - 1, 0>>]])])])

\* (variant: the innermost range runs downwards)
ExponentProduct_Descending(dim_x, dim_y) ==
    Concat([a \in 1..dim_x |->
      Concat([b \in 1..dim_y |->
        Concat([c \in 1..dim_x |->
          [d \in 1..dim_y |-> <<a - 1, b - 1, c - 1, dim_y - d>>]])])])

\* itertools.product(range(dim_x), range(dim_y), range(dim_x), range(dim_y))
ExponentProduct(dim_x, dim_y) ==
    Concat([a \in 1..dim_x |->
      Concat([b \in 1..dim_y |->
        Concat([c \in 1..dim_x |->
          [d \in 1..dim_y |-> <<a - 1, b - 1, c - 1, d - 1>>]])])])

\* (variant: range(MIN_ORDER, dim_x) for dim_y, leaving out dim_y = dim_x)
QCEnumeration_WithoutSquare ==
    Concat([i \in DOMAIN Range(Max(MIN_ORDER, min_order), qc_max_order + 1) |->
      LET dim_x == Range(Max(MIN_ORDER, min_order), qc_max_order + 1)[i] IN
      Concat([j \in DOMAIN Range(MIN_ORDER, dim_x) |->
        LET dim_y == Range(MIN_ORDER, dim_x)[j]
            exps == ExponentProduct(dim_x, dim_y) IN
        [e \in DOMAIN exps |->
            [dim_x |-> dim_x, dim_y |-> dim_y, exponents |-> exps[e]]]])])

\* the three nested for loops of run_search.py, in submission order
QCEnumeration ==
    Concat([i \in DOMAIN Range(Max(MIN_ORDER, min_order), qc_max_order + 1) |->
      LET dim_x == Range(Max(MIN_ORDER, min_order), qc_max_order + 1)[i] IN
      Concat([j \in DOMAIN Range(MIN_ORDER, dim_x + 1) |->
        LET dim_y == Range(MIN_ORDER, dim_x + 1)[j]
            exps == ExponentProduct(dim_x, dim_y) IN
        [e \in DOMAIN exps |->
            [dim_x |-> dim_x, dim_y |-> dim_y, exponents |-> exps[e]]]])])

QCJobs == Take(QCEnumeration, MaxJobs)

\* the key run_and_save writes under: cache[dim_x, dim_y, exponents, num_trials]
QCKey(c) == <<c.dim_x, c.dim_y, c.exponents, NUM_TRIALS>>

\* ------------------------------------------ quantum Tanner candidate enumeration
\* abstract.SmallGroup.number(order): the number of groups of that order
SmallGroupNumber(order) ==
    <<1, 1, 1, 2, 1, 2, 1, 5, 2, 2, 1, 5, 1, 2, 1, 14, 1, 5, 1, 5, 2>>[order]

get_small_groups ==
    Concat([i \in DOMAIN Range(3, qt_max_order + 1) |->
      LET order == Range(3, qt_max_order + 1)[i] IN
      [k \in DOMAIN Range(1, SmallGroupNumber(order) + 1) |->
          <<order, Range(1, SmallGroupNumber(order) + 1)[k]>>]])

\* get_codes_and_args: (code, argument); a code is known by its class name,
\* its block length num_bits and its parity-check matrix (an identifier)
get_codes_and_args ==
    [i \in 1..2 |-> [name |-> "HammingCode", arg |-> i + 1,
                     num_bits |-> Pow2(i + 1) - 1, matrix |-> i]]
    \o [i \in 1..4 |-> [name |-> "CordaroWagnerCode", arg |-> i + 2,
                        num_bits |-> i + 2, matrix |-> 2 + i]]
    \o [i \in 1..3 |-> [name |-> "MittalCode", arg |-> i + 3,
                        num_bits |-> i + 3, matrix |-> 6 + i]]

\* (variant: `<=` for `<` in the block-length filter)
QTEnumeration_SkipsEqual ==
    Concat([g \in DOMAIN get_small_groups |->
      Concat([b \in DOMAIN get_codes_and_args |->
        LET group_order == get_small_groups[g][1]
            group_index == get_small_groups[g][2]
            base_code   == get_codes_and_args[b] IN
        IF group_order <= base_code.num_bits
        THEN <<>>
        ELSE [s \in DOMAIN Range(0, num_samples) |->
                [group_order |-> group_order, group_index |-> group_index,
                 base_code |-> base_code,
                 base_code_id |-> <<base_code.name, base_code.arg>>,
                 sample |-> Range(0, num_samples)[s]]]])])

\* the nested loops of quantum_tanner_search.py with the `continue` of line 121:
\* the argument tuples handed to pool.apply_async, in submission order
QTEnumeration ==
    Concat([g \in DOMAIN get_small_groups |->
      Concat([b \in DOMAIN get_codes_and_args |->
        LET group_order == get_small_groups[g][1]
            group_index == get_small_groups[g][2]
            base_code   == get_codes_and_args[b] IN
        IF group_order < base_code.num_bits
        THEN <<>>
        ELSE [s \in DOMAIN Range(0, num_samples) |->
                [group_order |-> group_order, group_index |-> group_index,
                 base_code |-> base_code,
                 base_code_id |-> <<base_code.name, base_code.arg>>,
                 sample |-> Range(0, num_samples)[s]]]])])

QTJobs == Take(QTEnumeration, MaxJobs)

\* get_deterministic_hash: repr -> digest -> the leading num_bytes, big endian.
\* The digest is a polynomial fold of the inputs; the truncation keeps HashBits.
RECURSIVE Digest(_, _)
Digest(inputs, acc) ==
    IF inputs = <<>> THEN acc
    ELSE Digest(Tail(inputs), (acc * 31 + Head(inputs) + 7) % Pow2(HashBits + 8))

get_deterministic_hash(inputs) == Digest(inputs, 17) % Pow2(HashBits)

QTSeed(a) ==
    get_deterministic_hash(<<a.group_order, a.group_index, a.base_code.matrix, a.sample>>)

\* file = f"qtcode_{group_id}_{base_code_id}_s{seed}.txt"
QTPath(a) == <<"qtcode", a.group_order, a.group_index, a.base_code_id, QTSeed(a)>>

\* --------------------------------------------------- what the library answers
\* One answer per candidate: whether a library call raises (and at which step),
\* the constructed code's num_qubits and dimension, the distance bound, and for
\* the quasi-cyclic family the toric mappings with their check shifts.
Shift(sx, sz) == [shifts_x |-> sx, shifts_z |-> sz]

Answer(r, n, k, d, tm) ==
    [raises |-> r, num_qubits |-> n, dimension |-> k, distance |-> d,
     toric_mappings |-> tm]

\* quasi-cyclic: a trivial code; a code whose best layout needs exactly the
\* cutoff; a code whose every layout needs more; a construction that raises
QCLib ==
    { Answer("none", 18, 0, 0, << Shift({<<1, 1>>}, {<<2, 0>>}) >>),
      Answer("none", 18, 4, 2, << Shift({<<12, 1>>}, {<<1, 0>>}),
                                  Shift({<<12, 0>>}, {<<0, 1>>}) >>),
      Answer("none", 18, 2, 3, << Shift({<<12, 1>>}, {<<0, 1>>}),
                                  Shift({<<0, 13>>}, {<<1, 1>>}) >>),
      Answer("construct", 0, 0, 0, <<>>) }

\* quantum Tanner: a trivial code; a non-trivial code; a save that raises
QTLib ==
    { Answer("none", 36, 0, 0, <<>>),
      Answer("none", 36, 2, 4, <<>>),
      Answer("persist", 36, 2, 4, <<>>) }

\* ----------------------------------------------------------------- the state
VARIABLES
    script,         \* which sweep runs: "qt" or "qc"
    cpu_count,      \* os.cpu_count(): UnknownCpus (None) or a positive integer
    lib,            \* the library's answer for each candidate
    pc,             \* the driver: "start", "loop", "wait", "done", "crashed"
    next,           \* index of the next candidate the loops will submit
    status,         \* per job: "new", "queued", "running", "done", "failed",
                    \*          "terminated"
    active_tasks,   \* quantum_tanner_search.py active_tasks (job indices)
    wait_idx,       \* position of the final `for task in active_tasks` loop
    cache,          \* run_search.py: the disk cache, key -> (n, k, d, comm)
    files,          \* quantum_tanner_search.py: save_dir, path -> content
    kept,           \* keys/paths persisted when the current run started
    writes,         \* per key/path: how many times this run wrote it
    calls,          \* per job: the library calls it made in this run, in order
    submitted       \* the candidates handed to submit / apply_async, in order

vars == <<script, cpu_count, lib, pc, next, status, active_tasks, wait_idx,
          cache, files, kept, writes, calls, submitted>>

Jobs == IF script = "qt" THEN QTJobs ELSE QCJobs
NumJobs == Len(Jobs)

\* max_concurrent_tasks = os.cpu_count() or 1
max_concurrent_tasks == IF cpu_count = UnknownCpus THEN 1 ELSE cpu_count

\* max_concurrent_jobs = num_cpus // 2 if (num_cpus := os.cpu_count()) else 1
max_concurrent_jobs == IF cpu_count # UnknownCpus THEN cpu_count \div 2 ELSE 1

\* the number of worker processes of the pool / executor
Processes == IF script = "qt" THEN max_concurrent_tasks ELSE max_concurrent_jobs

\* AsyncResult.ready() / Future.done(): finished, with a value or an exception
Ready(j) == status[j] \in {"done", "failed"}

Dispatched == {j \in DOMAIN status : status[j] # "new"}
Unresolved == {j \in DOMAIN status : status[j] \in {"queued", "running"}}
Executing  == {j \in DOMAIN status : status[j] = "running"}

Put(f, k, v) == (k :> v) @@ f
Count(k) == IF k \in DOMAIN writes THEN writes[k] ELSE 0

Init ==
    /\ script \in {"qt", "qc"}
    /\ cpu_count \in {UnknownCpus} \cup (1..MaxCpus)
    /\ lib \in [1..NumJobs -> IF script = "qt" THEN QTLib ELSE QCLib]
    /\ pc = "start"
    /\ next = 1
    /\ status = [j \in 1..NumJobs |-> "new"]
    /\ active_tasks = <<>>
    /\ wait_idx = 1
    /\ cache = <<>>
    /\ files = <<>>
    /\ kept = {}
    /\ writes = <<>>
    /\ calls = [j \in 1..NumJobs |-> <<>>]
    /\ submitted = <<>>

\* ------------------------------------------------- the quasi-cyclic evaluator
\* np.sqrt(xx**2 + yy**2) is monotone in xx**2 + yy**2, so distances are kept
\* squared and the cutoff is compared squared.
Norm2(v) == v[1] * v[1] + v[2] * v[2]

\* distances = set(... for xx, yy in shifts_x | shifts_z)
Distances(m) == {Norm2(v) : v \in m.shifts_x \cup m.shifts_z}

\* (variant: min() where the code has max())
MaxDistances_Smallest(tm) == [i \in DOMAIN tm |-> SetMin(Distances(tm[i]))]

\* max_distances, appended mapping by mapping
MaxDistances(tm) == [i \in DOMAIN tm |-> SetMax(Distances(tm[i]))]

\* comm_distance = min(max_distances)
MinimalCommDistance2(tm) == SetMin(SeqToSet(MaxDistances(tm)))

\* what a call of the evaluator comes to: an exception, None, or the record;
\* `calls` lists the library calls it made, in order
Raised(c) == [kind |-> "raise", calls |-> c]
ReturnNone(c) == [kind |-> "None", calls |-> c]
Params(n, k, d, cd, c) ==
    [kind |-> "params", nn |-> n, kk |-> k, dd |-> d, comm_dist2 |-> cd, calls |-> c]

\* (variant: the dimension check is missing)
IsTrivial_Unchecked(a) == FALSE

\* if code.dimension == 0
IsTrivial(a) == a.dimension = 0

\* (variant: the cutoff is compared one too high)
CutoffExceeded_OneTooHigh(comm_distance2) ==
    comm_distance2 > (MAX_COMMUNICATION_DISTANCE + 1) * (MAX_COMMUNICATION_DISTANCE + 1)

\* if comm_distance > MAX_COMMUNICATION_DISTANCE
CutoffExceeded(comm_distance2) ==
    comm_distance2 > MAX_COMMUNICATION_DISTANCE * MAX_COMMUNICATION_DISTANCE

\* (variant: the distance estimate is run before the cutoff is checked)
get_quasi_cyclic_code_params_EstimateFirst(a) ==
    LET built  == <<"QCCode">>
        mapped == built \o <<"get_toric_mappings">>
                        \o [i \in DOMAIN a.toric_mappings |-> "get_check_shifts"]
    IN
    IF a.raises = "construct" THEN Raised(built)
    ELSE IF IsTrivial(a) THEN ReturnNone(built)
    ELSE IF \E i \in DOMAIN a.toric_mappings : Distances(a.toric_mappings[i]) = {}
         THEN Raised(mapped)
    ELSE IF a.toric_mappings = <<>> THEN Raised(mapped)
    ELSE LET comm_distance2 == MinimalCommDistance2(a.toric_mappings) IN
         IF a.raises = "evaluate"
         THEN Raised(mapped \o <<"get_distance_bound">>)
         ELSE IF CutoffExceeded(comm_distance2)
              THEN ReturnNone(mapped \o <<"get_distance_bound">>)
         ELSE Params(a.num_qubits, a.dimension, a.distance, comm_distance2,
                     mapped \o <<"get_distance_bound">>)

get_quasi_cyclic_code_params(a) ==
    LET built  == <<"QCCode">>
        mapped == built \o <<"get_toric_mappings">>
                        \o [i \in DOMAIN a.toric_mappings |-> "get_check_shifts"]
    IN
    IF a.raises = "construct" THEN Raised(built)
    ELSE IF IsTrivial(a) THEN ReturnNone(built)
    ELSE IF \E i \in DOMAIN a.toric_mappings : Distances(a.toric_mappings[i]) = {}
         THEN Raised(mapped)       \* max() of an empty set
    ELSE IF a.toric_mappings = <<>> THEN Raised(mapped)   \* min() of an empty list
    ELSE LET comm_distance2 == MinimalCommDistance2(a.toric_mappings) IN
         IF CutoffExceeded(comm_distance2) THEN ReturnNone(mapped)
         ELSE IF a.raises = "evaluate"
              THEN Raised(mapped \o <<"get_distance_bound">>)
         ELSE Params(a.num_qubits, a.dimension, a.distance, comm_distance2,
                     mapped \o <<"get_distance_bound">>)

\* ------------------------------------------------------------ the driver (qc)
\* with ProcessPoolExecutor(max_workers=max_concurrent_jobs): ValueError for <= 0
QC_CreateExecutor ==
    /\ script = "qc" /\ pc = "start"
    /\ pc' = IF max_concurrent_jobs <= 0 THEN "crashed" ELSE "loop"
    /\ UNCHANGED <<script, cpu_count, lib, next, status, active_tasks, wait_idx,
                   cache, files, kept, writes, calls, submitted>>

\* may executor.submit hand over the next candidate now?  It never blocks.
QC_CanSubmit == TRUE

\* executor.submit(run_and_save, dim_x, dim_y, exponents, NUM_TRIALS, cache)
QC_Submit ==
    /\ script = "qc" /\ pc = "loop"
    /\ next <= NumJobs
    /\ QC_CanSubmit
    /\ status' = [status EXCEPT ![next] = "queued"]
    /\ submitted' = Append(submitted, QCJobs[next])
    /\ next' = next + 1
    /\ UNCHANGED <<script, cpu_count, lib, pc, active_tasks, wait_idx,
                   cache, files, kept, writes, calls>>

\* the loops are exhausted: leaving the with block calls shutdown(wait=True)
QC_LoopEnd ==
    /\ script = "qc" /\ pc = "loop"
    /\ next > NumJobs
    /\ pc' = "wait"
    /\ UNCHANGED <<script, cpu_count, lib, next, status, active_tasks, wait_idx,
                   cache, files, kept, writes, calls, submitted>>

\* (variant: shutdown(wait=False))
QC_ShutdownReturns_NoWait == TRUE

\* shutdown(wait=True) returns once every pending future has finished
QC_ShutdownReturns == \A j \in Dispatched : Ready(j)

QC_Exit ==
    /\ script = "qc" /\ pc = "wait"
    /\ QC_ShutdownReturns
    /\ pc' = "done"
    /\ status' = [j \in DOMAIN status |->
                    IF status[j] \in {"queued", "running"}
                    THEN "terminated" ELSE status[j]]
    /\ UNCHANGED <<script, cpu_count, lib, next, active_tasks, wait_idx,
                   cache, files, kept, writes, calls, submitted>>

\* ------------------------------------------------------------ the driver (qt)
\* with multiprocessing.Pool(processes=max_concurrent_tasks) as pool
QT_CreatePool ==
    /\ script = "qt" /\ pc = "start"
    /\ pc' = IF max_concurrent_tasks <= 0 THEN "crashed" ELSE "loop"
    /\ UNCHANGED <<script, cpu_count, lib, next, status, active_tasks, wait_idx,
                   cache, files, kept, writes, calls, submitted>>

\* (variant: `>` for `>=`)
QT_MustWait_OffByOne == Len(active_tasks) > max_concurrent_tasks

\* while len(active_tasks) >= max_concurrent_tasks
QT_MustWait == Len(active_tasks) >= max_concurrent_tasks

\* (variant: nothing is ever dropped from the list)
QT_Reaped_KeepsAll == active_tasks

\* (variant: the filter is inverted and keeps the ready tasks)
QT_Reaped_Inverted == SelectSeq(active_tasks, LAMBDA t : Ready(t))

\* [task for task in active_tasks if not task.ready()]
QT_Reaped == SelectSeq(active_tasks, LAMBDA t : ~Ready(t))

\* one turn of the wait loop: reap, then sleep
QT_Reap ==
    /\ script = "qt" /\ pc = "loop"
    /\ next <= NumJobs
    /\ QT_MustWait
    /\ active_tasks' = QT_Reaped
    /\ UNCHANGED <<script, cpu_count, lib, pc, next, status, wait_idx,
                   cache, files, kept, writes, calls, submitted>>

\* task = pool.apply_async(run_and_save, args, kwargs); active_tasks.append(task)
QT_Submit ==
    /\ script = "qt" /\ pc = "loop"
    /\ next <= NumJobs
    /\ ~QT_MustWait
    /\ status' = [status EXCEPT ![next] = "queued"]
    /\ active_tasks' = Append(active_tasks, next)
    /\ submitted' = Append(submitted, QTJobs[next])
    /\ next' = next + 1
    /\ UNCHANGED <<script, cpu_count, lib, pc, wait_idx, cache, files, kept, writes, calls>>

\* the loops are exhausted: on to `for task in active_tasks: task.wait()`
QT_LoopEnd ==
    /\ script = "qt" /\ pc = "loop"
    /\ next > NumJobs
    /\ pc' = "wait"
    /\ wait_idx' = 1
    /\ UNCHANGED <<script, cpu_count, lib, next, status, active_tasks,
                   cache, files, kept, writes, calls, submitted>>

\* (variant: the final loop does not block)
QT_WaitReturns_NoWait(t) == TRUE

\* task.wait() returns once the task is ready
QT_WaitReturns(t) == Ready(t)

\* (variant: task.get(), which re-raises the task's exception in the driver)
QT_AfterWait_Get(t) == IF status[t] = "failed" THEN "crashed" ELSE "wait"

\* where the driver stands after task.wait(): wait() never re-raises the
\* task's exception, so it stays in the loop whatever the task came to
QT_AfterWait(t) == "wait"

QT_Wait ==
    /\ script = "qt" /\ pc = "wait"
    /\ wait_idx <= Len(active_tasks)
    /\ QT_WaitReturns(active_tasks[wait_idx])
    /\ wait_idx' = wait_idx + 1
    /\ pc' = QT_AfterWait(active_tasks[wait_idx])
    /\ UNCHANGED <<script, cpu_count, lib, next, status, active_tasks,
                   cache, files, kept, writes, calls, submitted>>

\* leaving the with block: Pool.__exit__ terminates the workers
QT_Exit ==
    /\ script = "qt" /\ pc = "wait"
    /\ wait_idx > Len(active_tasks)
    /\ pc' = "done"
    /\ status' = [j \in DOMAIN status |->
                    IF status[j] \in {"queued", "running"}
                    THEN "terminated" ELSE status[j]]
    /\ UNCHANGED <<script, cpu_count, lib, next, active_tasks, wait_idx,
                   cache, files, kept, writes, calls, submitted>>

\* ------------------------------------------------------------------ the workers
\* a free worker process takes the oldest queued job
WorkerStart(j) ==
    /\ pc \in {"loop", "wait"}
    /\ status[j] = "queued"
    /\ \A i \in DOMAIN status : status[i] = "queued" => j <= i
    /\ Cardinality(Executing) < Processes
    /\ status' = [status EXCEPT ![j] = "running"]
    /\ UNCHANGED <<script, cpu_count, lib, pc, next, active_tasks, wait_idx,
                   cache, files, kept, writes, calls, submitted>>

\* quantum_tanner_search.py run_and_save, lines 75-85: group, seed, code, params
qt_code_params(a) ==
    IF a.raises = "construct" THEN Raised(<<"SmallGroup", "QTCode.random">>)
    ELSE IF a.raises = "evaluate"
         THEN Raised(<<"SmallGroup", "QTCode.random", "get_code_params">>)
    ELSE Params(a.num_qubits, a.dimension, a.distance, 0,
                <<"SmallGroup", "QTCode.random", "get_code_params">>)

\* does quantum_tanner_search.py run_and_save go on to code.save?  Always.
QT_Saves(params) == params.kind = "params"

\* does run_search.py run_and_save write the cache?  `if params is not None`
QC_Saves(params) == params.kind = "params"

\* the key a quasi-cyclic job writes under
QC_WriteKey(j) == QCKey(QCJobs[j])

\* cache[dim_x, dim_y, exponents, num_trials] = (nn, kk, dd, comm_dist)
QC_Entry(j) ==
    LET params == get_quasi_cyclic_code_params(lib[j])
    IN <<params.nn, params.kk, params.dd, params.comm_dist2>>

\* (variant: the seed in the file name is salted per run, as Python's hash() is)
QT_WritePath_SaltedPerRun(j) ==
    LET a == QTJobs[j] IN
    <<"qtcode", a.group_order, a.group_index, a.base_code_id,
      get_deterministic_hash(<<a.group_order, a.group_index, a.base_code.matrix,
                               a.sample, Cardinality(kept)>>)>>

\* path = os.path.join(save_dir, file)
QT_WritePath(j) == QTPath(QTJobs[j])

\* code.save(path, *headers): the headers and the code's normal form
QT_Content(j) ==
    LET params == qt_code_params(lib[j])
    IN [headers |-> <<num_trials, <<params.nn, params.kk, params.dd>>>>,
        code |-> <<QTJobs[j].group_order, QTJobs[j].group_index,
                   QTJobs[j].base_code.matrix, QTSeed(QTJobs[j])>>]

\* run_and_save in a worker, from the call to its return or its exception;
\* an I/O failure of the write raises and leaves the store as it was
RunAndSave(j) ==
    /\ pc \in {"loop", "wait"}
    /\ status[j] = "running"
    /\ LET params == IF script = "qt" THEN qt_code_params(lib[j])
                     ELSE get_quasi_cyclic_code_params(lib[j])
           saves == IF script = "qt" THEN QT_Saves(params) ELSE QC_Saves(params)
           store == IF script = "qt" THEN "code.save" ELSE "cache.__setitem__"
       IN IF params.kind = "raise"
          THEN /\ status' = [status EXCEPT ![j] = "failed"]
               /\ calls' = [calls EXCEPT ![j] = params.calls]
               /\ UNCHANGED <<cache, files, writes>>
          ELSE IF ~saves
          THEN /\ status' = [status EXCEPT ![j] = "done"]
               /\ calls' = [calls EXCEPT ![j] = params.calls]
               /\ UNCHANGED <<cache, files, writes>>
          ELSE IF lib[j].raises = "persist"
          THEN /\ status' = [status EXCEPT ![j] = "failed"]
               /\ calls' = [calls EXCEPT ![j] = Append(params.calls, store)]
               /\ UNCHANGED <<cache, files, writes>>
          ELSE /\ status' = [status EXCEPT ![j] = "done"]
               /\ calls' = [calls EXCEPT ![j] = Append(params.calls, store)]
               /\ IF script = "qt"
                  THEN /\ files' = Put(files, QT_WritePath(j), QT_Content(j))
                       /\ writes' = Put(writes, QT_WritePath(j),
                                        Count(QT_WritePath(j)) + 1)
                       /\ UNCHANGED cache
                  ELSE /\ cache' = Put(cache, QC_WriteKey(j), QC_Entry(j))
                       /\ writes' = Put(writes, QC_WriteKey(j),
                                        Count(QC_WriteKey(j)) + 1)
                       /\ UNCHANGED files
    /\ UNCHANGED <<script, cpu_count, lib, pc, next, active_tasks, wait_idx, kept,
                   submitted>>

\* the script is started again on the same host, cache and save_dir
Rerun ==
    /\ pc = "done"
    /\ pc' = "start"
    /\ next' = 1
    /\ status' = [j \in DOMAIN status |-> "new"]
    /\ active_tasks' = <<>>
    /\ wait_idx' = 1
    /\ kept' = IF script = "qt" THEN DOMAIN files ELSE DOMAIN cache
    /\ writes' = <<>>
    /\ calls' = [j \in DOMAIN status |-> <<>>]
    /\ submitted' = <<>>
    /\ UNCHANGED <<script, cpu_count, lib, cache, files>>

Next ==
    \/ QC_CreateExecutor
    \/ QC_Submit
    \/ QC_LoopEnd
    \/ QC_Exit
    \/ QT_CreatePool
    \/ QT_Reap
    \/ QT_Submit
    \/ QT_LoopEnd
    \/ QT_Wait
    \/ QT_Exit
    \/ \E j \in DOMAIN status : WorkerStart(j)
    \/ \E j \in DOMAIN status : RunAndSave(j)
    \/ Rerun

Spec == Init /\ [][Next]_vars

\* ------------------------------------------- one run of the poll-loop sweep
\* The driver keeps polling and the pool's workers keep running: every task
\* that can start does, and every running task returns or raises.
InitQT == Init /\ script = "qt"

NextQT ==
    \/ QT_CreatePool
    \/ QT_Reap
    \/ QT_Submit
    \/ QT_LoopEnd
    \/ QT_Wait
    \/ QT_Exit
    \/ \E j \in DOMAIN status : WorkerStart(j)
    \/ \E j \in DOMAIN status : RunAndSave(j)

FairQT ==
    /\ WF_vars(QT_CreatePool)
    /\ WF_vars(QT_Reap)
    /\ WF_vars(QT_Submit)
    /\ WF_vars(QT_LoopEnd)
    /\ WF_vars(QT_Wait)
    /\ WF_vars(QT_Exit)
    /\ \A j \in DOMAIN QTJobs : WF_vars(WorkerStart(j))
    /\ \A j \in DOMAIN QTJobs : WF_vars(RunAndSave(j))

SpecQT == InitQT /\ [][NextQT]_vars /\ FairQT

\* ------------------------------------------- the evaluator on its own inputs
\* run_and_save of run_search.py called in-process, candidate after candidate,
\* on every answer the library can give within the bounds: a code of
\* dimension 0 or 2 with 0..MaxMappings layouts, each layout's shifts_x and
\* shifts_z drawn from ShiftSets (empty sets included).
ShiftSets == { {}, {<<12, 0>>, <<0, 1>>}, {<<12, 1>>}, {<<3, 4>>} }

EvalMappings == {Shift(sx, sz) : sx \in ShiftSets, sz \in ShiftSets}

MappingLists == UNION {[1..n -> EvalMappings] : n \in 0..MaxMappings}

EvalLib == {Answer("none", 18, k, 3, tm) : k \in {0, 2}, tm \in MappingLists}

InitEval ==
    /\ script = "qc"
    /\ cpu_count = UnknownCpus
    /\ \E a \in EvalLib : lib = [j \in 1..NumJobs |-> a]
    /\ pc = "loop"
    /\ next = 1
    /\ status = [j \in 1..NumJobs |-> "new"]
    /\ active_tasks = <<>>
    /\ wait_idx = 1
    /\ cache = <<>>
    /\ files = <<>>
    /\ kept = {}
    /\ writes = <<>>
    /\ calls = [j \in 1..NumJobs |-> <<>>]
    /\ submitted = <<>>

\* run_and_save(dim_x, dim_y, exponents, NUM_TRIALS, cache) is entered
EvalCall(j) ==
    /\ j = next /\ next <= NumJobs
    /\ status[j] = "new"
    /\ Executing = {}
    /\ status' = [status EXCEPT ![j] = "running"]
    /\ submitted' = Append(submitted, QCJobs[j])
    /\ next' = next + 1
    /\ UNCHANGED <<script, cpu_count, lib, pc, active_tasks, wait_idx,
                   cache, files, kept, writes, calls>>

NextEval ==
    \/ \E j \in DOMAIN status : EvalCall(j)
    \/ \E j \in DOMAIN status : RunAndSave(j)

SpecEval == InitEval /\ [][NextEval]_vars

\* ========================================================== properties
\* the key or path job j persists under
JobKey(j) == IF script = "qt" THEN QT_WritePath(j) ELSE QC_WriteKey(j)
Store == IF script = "qt" THEN files ELSE cache

\* C1: in the poll-loop sweep the dispatched tasks that have not completed
\* never number more than max_concurrent_tasks, and neither does active_tasks,
\* which holds every one of them.
C1_PollLoopBound ==
    script = "qt" =>
        /\ Cardinality(Unresolved) <= max_concurrent_tasks
        /\ Len(active_tasks) <= max_concurrent_tasks
        /\ Unresolved \subseteq SeqToSet(active_tasks)

\* the pool is full while a candidate is still to be submitted
C1_Witness ==
    /\ script = "qt" /\ pc = "loop" /\ next <= NumJobs
    /\ Cardinality(Unresolved) = max_concurrent_tasks
    /\ max_concurrent_tasks >= 2

\* C2 (as claimed): in the quasi-cyclic sweep no more than max_workers
\* submitted jobs are unresolved (queued or running) at any time.
C2_SubmitBlocksWhenBusy ==
    script = "qc" => Cardinality(Unresolved) <= max_concurrent_jobs

\* C3 (as claimed): a job whose key was in the cache when the run started
\* makes no library call: the construction and the estimate are skipped.
C3_KeptKeyNotEvaluated ==
    script = "qc" =>
        \A j \in DOMAIN calls : QC_WriteKey(j) \in kept => calls[j] = <<>>

\* C4 (as claimed): every file of save_dir holds a code of dimension > 0.
C4_NoFileForTrivialCode ==
    script = "qt" => \A p \in DOMAIN files : files[p].headers[2][2] > 0

\* C5: the cache has no entry for a candidate whose code has dimension 0, and
\* no entry records dimension 0.
C5_NoEntryForTrivialCode ==
    script = "qc" =>
        /\ \A j \in DOMAIN lib : lib[j].dimension = 0 => JobKey(j) \notin DOMAIN cache
        /\ \A k \in DOMAIN cache : cache[k][2] > 0

\* a trivial candidate's job has returned and a sibling's entry is in the cache
C5_Witness ==
    /\ script = "qc"
    /\ \E j \in DOMAIN lib : lib[j].dimension = 0 /\ status[j] = "done"
    /\ cache # <<>>

\* the squared lengths of the shifts of one layout all lie within the cutoff
WithinCutoff(m) ==
    \A v \in m.shifts_x \cup m.shifts_z :
        v[1] * v[1] + v[2] * v[2] <= MAX_COMMUNICATION_DISTANCE * MAX_COMMUNICATION_DISTANCE

\* C6: every cache entry has comm_distance <= MAX_COMMUNICATION_DISTANCE; a
\* non-trivial candidate with a layout within the cutoff (equality included)
\* is entered once its job has returned, one with no such layout never is.
C6_CutoffFilter ==
    script = "qc" =>
        /\ \A k \in DOMAIN cache :
              cache[k][4] <= MAX_COMMUNICATION_DISTANCE * MAX_COMMUNICATION_DISTANCE
        /\ \A j \in DOMAIN lib :
              LET fits == \E i \in DOMAIN lib[j].toric_mappings :
                              WithinCutoff(lib[j].toric_mappings[i])
              IN /\ (status[j] = "done" /\ lib[j].dimension > 0 /\ fits)
                        => JobKey(j) \in DOMAIN cache
                 /\ ~fits => JobKey(j) \notin DOMAIN cache

\* an entry exactly at the cutoff is stored, a candidate beyond it has returned
C6_Witness ==
    /\ script = "qc"
    /\ \E k \in DOMAIN cache :
          cache[k][4] = MAX_COMMUNICATION_DISTANCE * MAX_COMMUNICATION_DISTANCE
    /\ \E j \in DOMAIN lib :
          /\ status[j] = "done" /\ lib[j].dimension > 0
          /\ JobKey(j) \notin DOMAIN cache

\* C7: when the driver has left the pool / executor block, every job it
\* dispatched has finished, with a value or with an exception.
C7_DrainedAtExit ==
    pc = "done" => \A j \in Dispatched : status[j] \in {"done", "failed"}

\* the poll loop has exited after every candidate, one of them having failed
C7_Witness ==
    /\ pc = "done" /\ script = "qt"
    /\ Cardinality(Dispatched) = NumJobs
    /\ \E j \in Dispatched : status[j] = "failed"
    /\ \E j \in Dispatched : status[j] = "done"

\* what the candidates alone determine: the entries of the jobs that return a
\* record, and the files of the jobs whose save does not raise
ExpectedCache ==
    LET ok == {j \in DOMAIN QCJobs :
                   get_quasi_cyclic_code_params(lib[j]).kind = "params"}
    IN [k \in {QCKey(QCJobs[j]) : j \in ok} |->
           LET j == CHOOSE i \in ok : QCKey(QCJobs[i]) = k
               r == get_quasi_cyclic_code_params(lib[j])
           IN <<r.nn, r.kk, r.dd, r.comm_dist2>>]

ExpectedFiles ==
    LET ok == {j \in DOMAIN QTJobs : lib[j].raises = "none"}
    IN [p \in {QTPath(QTJobs[j]) : j \in ok} |->
           LET j == CHOOSE i \in ok : QTPath(QTJobs[i]) = p
           IN [headers |-> <<num_trials, <<lib[j].num_qubits, lib[j].dimension,
                                           lib[j].distance>>>>,
               code |-> <<QTJobs[j].group_order, QTJobs[j].group_index,
                          QTJobs[j].base_code.matrix, QTSeed(QTJobs[j])>>]]

\* C8: at the end of a sweep the persisted keys and contents are the ones the
\* candidates determine, whatever the number of workers and whatever the
\* order in which jobs finished.
C8_OutcomeIndependentOfWorkers ==
    pc = "done" =>
        IF script = "qt" THEN files = ExpectedFiles ELSE cache = ExpectedCache

\* a sweep on four workers has ended with files written
C8_Witness ==
    /\ pc = "done" /\ script = "qt"
    /\ max_concurrent_tasks = 4
    /\ Cardinality(DOMAIN files) >= 2

C10_OneWriterPerKey ==
    script = "qc" =>
        /\ \A k \in DOMAIN writes : writes[k] <= 1
        /\ \A k \in DOMAIN writes :
              \E j \in DOMAIN status : status[j] = "done" /\ QCKey(QCJobs[j]) = k
        /\ \A i, j \in DOMAIN QCJobs :
              i # j => QCKey(QCJobs[i]) # QCKey(QCJobs[j])

\* two jobs run at the same time and a third has already written its entry
C10_Witness ==
    /\ script = "qc"
    /\ Cardinality(Executing) >= 2
    /\ \E k \in DOMAIN writes : writes[k] = 1

\* w is the largest squared length among the shifts of layout m
IsWorst(m, w) ==
    /\ \E v \in m.shifts_x \cup m.shifts_z : v[1] * v[1] + v[2] * v[2] = w
    /\ \A v \in m.shifts_x \cup m.shifts_z : v[1] * v[1] + v[2] * v[2] <= w

\* c is the least, over the layouts, of the layouts' worst squared lengths
IsMinMax(tm, c) ==
    /\ \E i \in DOMAIN tm : IsWorst(tm[i], c)
    /\ \A i \in DOMAIN tm : \A w \in 0..c : IsWorst(tm[i], w) => c <= w

\* at least one layout, and every layout has at least one shift
HasShifts(tm) ==
    /\ tm # <<>>
    /\ \A i \in DOMAIN tm : tm[i].shifts_x \cup tm[i].shifts_z # {}

\* C11: for a non-empty list of layouts, each with a shift, the communication
\* distance the evaluator computes is the minimum over the layouts of the
\* largest shift length: no layout's worst case is below it and one layout's
\* worst case equals it; it is the value stored when it is within the cutoff,
\* and the candidate is dropped when it is not.
C11_MinOverLayoutsOfWorstShift ==
    \A j \in DOMAIN lib :
        LET tm == lib[j].toric_mappings
            c  == MinimalCommDistance2(tm)
        IN HasShifts(tm) =>
             /\ IsMinMax(tm, c)
             /\ (status[j] = "done" /\ lib[j].dimension > 0) =>
                   IF \E i \in DOMAIN tm : WithinCutoff(tm[i])
                   THEN /\ JobKey(j) \in DOMAIN cache
                        /\ IsMinMax(tm, cache[JobKey(j)][4])
                   ELSE JobKey(j) \notin DOMAIN cache

\* two layouts with different worst cases were evaluated and the smaller stored
C11_Witness ==
    \E j \in DOMAIN lib :
        /\ Len(lib[j].toric_mappings) = 2
        /\ IsWorst(lib[j].toric_mappings[1], 145)
        /\ IsWorst(lib[j].toric_mappings[2], 25)
        /\ status[j] = "done"
        /\ JobKey(j) \in DOMAIN cache /\ cache[JobKey(j)][4] = 25

\* C14: get_distance_bound is called only for a code of dimension > 0 with a
\* layout within the cutoff, and only after the construction and the layout
\* queries; a trivial code makes no call after the construction.
C14_EstimateOnlyAfterFilters ==
    \A j \in DOMAIN calls :
        LET c == calls[j] IN
        /\ (\E p \in DOMAIN c : c[p] = "get_distance_bound") =>
              /\ lib[j].dimension > 0
              /\ \E i \in DOMAIN lib[j].toric_mappings :
                    WithinCutoff(lib[j].toric_mappings[i])
        /\ \A p, q \in DOMAIN c :
              (c[p] = "get_distance_bound" /\ c[q] # "get_distance_bound"
                 /\ c[q] # "cache.__setitem__") => q < p
        /\ (lib[j].dimension = 0 /\ c # <<>>) => c = <<"QCCode">>

\* a non-trivial candidate beyond the cutoff returned without an estimate
C14_Witness ==
    \E j \in DOMAIN calls :
        /\ status[j] = "done" /\ lib[j].dimension > 0
        /\ HasShifts(lib[j].toric_mappings)
        /\ \A i \in DOMAIN lib[j].toric_mappings :
              ~WithinCutoff(lib[j].toric_mappings[i])
        /\ \E p \in DOMAIN calls[j] : calls[j][p] = "get_check_shifts"
        /\ \A p \in DOMAIN calls[j] : calls[j][p] # "get_distance_bound"

\* C17 (as claimed): with no library call raising, the evaluator of a
\* non-trivial candidate never ends in an exception, whatever the layouts.
C17_EvaluatorNeverRaises ==
    \A j \in DOMAIN lib :
        (lib[j].dimension > 0 /\ lib[j].raises = "none") => status[j] # "failed"

LexLess(u, v) ==
    \E p \in DOMAIN u :
        /\ u[p] < v[p]
        /\ \A q \in 1..(p - 1) : u[q] = v[q]

\* a candidate's loop counters, outermost first
OrderKey(c) ==
    IF script = "qt"
    THEN <<c.group_order, c.group_index,
           CHOOSE b \in DOMAIN get_codes_and_args : get_codes_and_args[b] = c.base_code,
           c.sample>>
    ELSE <<c.dim_x, c.dim_y>> \o c.exponents

\* C13: candidates are submitted in the order of the nested loops: the
\* submitted ones are in increasing lexicographic order of their loop counters,
\* they are the first of the enumeration, and a job has been dispatched exactly
\* when the ones before it have been.
C13_DispatchInEnumerationOrder ==
    /\ \A i, j \in DOMAIN submitted :
          i < j => LexLess(OrderKey(submitted[i]), OrderKey(submitted[j]))
    /\ submitted = SubSeq(Jobs, 1, Len(submitted))
    /\ Dispatched = 1..Len(submitted)

\* the last candidate was submitted after an earlier job had already finished
C13_Witness ==
    /\ Len(submitted) = NumJobs /\ NumJobs >= 3
    /\ \E j \in DOMAIN status : j < NumJobs /\ Ready(j)
    /\ status[NumJobs] = "queued"
    /\ \E j \in DOMAIN status : j < NumJobs /\ status[j] = "running"

\* the submissions of the quantum Tanner loops for one (group, code) pair
PairJobs(g, b) ==
    {i \in DOMAIN QTEnumeration :
        /\ QTEnumeration[i].group_order = get_small_groups[g][1]
        /\ QTEnumeration[i].group_index = get_small_groups[g][2]
        /\ QTEnumeration[i].base_code = get_codes_and_args[b]}

\* per (group, code) pair: nothing if the group is smaller than the block
\* length, else one submission per sample index
QTEnumerationExact ==
    \A g \in DOMAIN get_small_groups : \A b \in DOMAIN get_codes_and_args :
        IF get_small_groups[g][1] < get_codes_and_args[b].num_bits
        THEN PairJobs(g, b) = {}
        ELSE /\ \A i \in PairJobs(g, b) : QTEnumeration[i].sample \in 0..(num_samples - 1)
             /\ \A sm \in 0..(num_samples - 1) :
                   Cardinality({i \in PairJobs(g, b) : QTEnumeration[i].sample = sm}) = 1

\* C15: the loops yield no job for a pair whose group is smaller than the
\* code's block length and exactly one job per sample index otherwise, and the
\* driver submits them one by one, none dropped or repeated, whenever jobs
\* finish (here: over the first MaxJobs of them).
C15_OneJobPerAdmissibleSample ==
    script = "qt" =>
        /\ QTEnumerationExact
        /\ Len(submitted) = next - 1
        /\ \A i \in DOMAIN submitted : submitted[i] = QTEnumeration[i]
        /\ pc \in {"wait", "done"} => Len(submitted) = Len(QTJobs)

\* the loops are over: a code too long for the group was passed over and the
\* next admissible pair's sample was submitted
C15_Witness ==
    /\ script = "qt" /\ pc = "wait"
    /\ \E i \in DOMAIN submitted :
          /\ i > 1
          /\ submitted[i].base_code # submitted[i - 1].base_code
          /\ \E b \in DOMAIN get_codes_and_args :
                /\ get_codes_and_args[b].num_bits > submitted[i].group_order
                /\ OrderKey(submitted[i - 1])[3] < b /\ b < OrderKey(submitted[i])[3]

\* C16: with the driver polling and every dispatched job finishing, the
\* poll-loop sweep ends: every candidate submitted, every job finished, the
\* final wait over.
C16_PollLoopTerminates ==
    <>(pc = "done" /\ next = NumJobs + 1 /\ \A j \in DOMAIN status : Ready(j))

\* the sweep ended after tasks had been reaped to make room
C16_Witness ==
    /\ script = "qt" /\ pc = "done"
    /\ max_concurrent_tasks < NumJobs
    /\ Len(active_tasks) < NumJobs

\* C18 (as claimed): whatever os.cpu_count() returns, the pool or executor is
\* configured with at least one worker and can be created.
C18_AtLeastOneWorker ==
    pc # "start" => (Processes >= 1 /\ pc # "crashed")

\* C19: in the poll-loop sweep every dispatched task is in active_tasks or
\* has finished; active_tasks holds dispatched tasks only, each once; when the
\* driver is done, nothing in it is unfinished.  A step takes out of
\* active_tasks only tasks that are ready and puts in exactly the task it
\* submits.
C19_ActiveTasksCoverUnfinished ==
    /\ [](script = "qt" =>
            /\ \A j \in Dispatched : Ready(j) \/ j \in SeqToSet(active_tasks)
            /\ SeqToSet(active_tasks) \subseteq Dispatched
            /\ \A p, q \in DOMAIN active_tasks :
                  p # q => active_tasks[p] # active_tasks[q]
            /\ pc = "done" => \A j \in SeqToSet(active_tasks) : Ready(j))
    /\ [][script = "qt" =>
            /\ \A j \in SeqToSet(active_tasks) \ SeqToSet(active_tasks') : Ready(j)
            /\ SeqToSet(active_tasks') \ SeqToSet(active_tasks)
                  = Dispatched' \ Dispatched]_vars

\* a finished task has been reaped while an unfinished one stays in the list
C19_Witness ==
    /\ script = "qt" /\ pc = "loop"
    /\ \E j \in Dispatched : Ready(j) /\ j \notin SeqToSet(active_tasks)
    /\ \E j \in SeqToSet(active_tasks) : ~Ready(j)
    /\ \E j \in SeqToSet(active_tasks) : Ready(j)

\* the bounds the quasi-cyclic candidates lie in
InSweepRange(c) ==
    /\ MIN_ORDER <= c.dim_y /\ c.dim_y <= c.dim_x /\ c.dim_x <= qc_max_order
    /\ 0 <= c.exponents[1] /\ c.exponents[1] < c.dim_x
    /\ 0 <= c.exponents[2] /\ c.exponents[2] < c.dim_y
    /\ 0 <= c.exponents[3] /\ c.exponents[3] < c.dim_x
    /\ 0 <= c.exponents[4] /\ c.exponents[4] < c.dim_y

\* the loops yield tuples in range, in strictly increasing lexicographic
\* order (so none twice), and every tuple in range is among them
QCEnumerationExact ==
    /\ \A i \in DOMAIN QCEnumeration : InSweepRange(QCEnumeration[i])
    /\ \A i \in 1..(Len(QCEnumeration) - 1) :
          LET u == QCEnumeration[i]
              v == QCEnumeration[i + 1]
          IN \E p \in 1..6 :
                /\ (<<u.dim_x, u.dim_y>> \o u.exponents)[p]
                     < (<<v.dim_x, v.dim_y>> \o v.exponents)[p]
                /\ \A q \in 1..(p - 1) :
                      (<<u.dim_x, u.dim_y>> \o u.exponents)[q]
                        = (<<v.dim_x, v.dim_y>> \o v.exponents)[q]
    /\ \A dx \in MIN_ORDER..qc_max_order : \A dy \in MIN_ORDER..dx :
          \A ax, bx \in 0..(dx - 1) : \A ay, by \in 0..(dy - 1) :
              \E i \in DOMAIN QCEnumeration :
                  QCEnumeration[i] =
                      [dim_x |-> dx, dim_y |-> dy, exponents |-> <<ax, ay, bx, by>>]

====
